---- MODULE Spec2Model ----
(***************************************************************************)
(* Model of src/open1.py (CreditVision AI): the occupation -> features ->  *)
(* score -> rate -> (max loan, EMI) -> offers -> explanation pipeline and  *)
(* the six functions it is made of, each also called on its own.           *)
(*                                                                         *)
(* Number representation.  The program computes in binary floating point;  *)
(* the model computes in decimal units:                                    *)
(*   feature values        hundredths            (0.65  -> 65)             *)
(*   annual rates          millionths            (0.087 -> 87000)          *)
(*   interest_rate_pa      hundredths of percent (8.70  -> 870)            *)
(*   incomes, max loan,                                                    *)
(*   EMI of the quote      cents                 (11250.0 -> 1125000)      *)
(*   offered_loan_amount   currency units                                  *)
(*   estimated_emi         1/10000 currency unit (emi * 1.05 is exact)     *)
(*   uniform draws         thousandths           (0.95 -> 950)             *)
(* The annuity formulas are computed in decimal floating point (mantissa   *)
(* of nine base-100 limbs, round to nearest even after every operation),   *)
(* so that (1+r)^n is a computed value with its own rounding error,        *)
(* overflow and underflow, as it is in the program.                        *)
(***************************************************************************)
EXTENDS Integers, Sequences, FiniteSets, TLC

(***************************************************************************)
(* Arbitrary-length naturals: <<>> is 0, no most-significant zero limb.    *)
(***************************************************************************)
Base == 10 * 10

RECURSIVE BigNorm(_)
BigNorm(s) ==
    IF s = <<>> THEN <<>>
    ELSE IF s[Len(s)] = 0 THEN BigNorm(SubSeq(s, 1, Len(s) - 1))
    ELSE s

RECURSIVE BigFromInt(_)
BigFromInt(n) ==
    IF n = 0 THEN <<>> ELSE <<n % Base>> \o BigFromInt(n \div Base)

RECURSIVE BigToInt(_)
BigToInt(s) ==
    IF s = <<>> THEN 0 ELSE s[1] + Base * BigToInt(Tail(s))

Limb(s, i) == IF i <= Len(s) THEN s[i] ELSE 0

Max2(a, b) == IF a >= b THEN a ELSE b
Min2(a, b) == IF a <= b THEN a ELSE b

\* propagate carries through a sequence of column values (each >= 0)
RECURSIVE BigCarry(_, _, _)
BigCarry(cols, k, c) ==
    IF k > Len(cols)
    THEN IF c = 0 THEN <<>> ELSE <<c % Base>> \o BigCarry(cols, k, c \div Base)
    ELSE <<(cols[k] + c) % Base>> \o BigCarry(cols, k + 1, (cols[k] + c) \div Base)

BigAdd(a, b) ==
    BigNorm(BigCarry([k \in 1..Max2(Len(a), Len(b)) |-> Limb(a, k) + Limb(b, k)], 1, 0))

\* a - b for a >= b
RECURSIVE BigBorrow(_, _, _, _)
BigBorrow(a, b, k, br) ==
    IF k > Len(a) THEN <<>>
    ELSE IF a[k] - Limb(b, k) - br < 0
         THEN <<a[k] - Limb(b, k) - br + Base>> \o BigBorrow(a, b, k + 1, 1)
         ELSE <<a[k] - Limb(b, k) - br>> \o BigBorrow(a, b, k + 1, 0)

BigSub(a, b) == BigNorm(BigBorrow(a, b, 1, 0))

\* -1, 0, 1 as a < b, a = b, a > b
RECURSIVE BigCmpFrom(_, _, _)
BigCmpFrom(a, b, k) ==
    IF k = 0 THEN 0
    ELSE IF a[k] < b[k] THEN -1
    ELSE IF a[k] > b[k] THEN 1
    ELSE BigCmpFrom(a, b, k - 1)

BigCmp(a, b) ==
    IF Len(a) < Len(b) THEN -1
    ELSE IF Len(a) > Len(b) THEN 1
    ELSE BigCmpFrom(a, b, Len(a))

\* a * k for a small natural k (k * Base fits the machine integer)
BigMulSmall(a, k) ==
    BigNorm(BigCarry([i \in 1..Len(a) |-> a[i] * k], 1, 0))

RECURSIVE BigColSum(_, _, _, _)
BigColSum(a, b, k, i) ==
    IF i > Len(a) \/ i > k THEN 0
    ELSE (IF k + 1 - i <= Len(b) THEN a[i] * b[k + 1 - i] ELSE 0)
         + BigColSum(a, b, k, i + 1)

BigMul(a, b) ==
    IF a = <<>> \/ b = <<>> THEN <<>>
    ELSE BigNorm(BigCarry([k \in 1..(Len(a) + Len(b) - 1) |->
                              BigColSum(a, b, k, Max2(1, k + 1 - Len(b)))], 1, 0))

\* a * Base^k and floor(a / Base^k)
BigShift(a, k) == IF a = <<>> THEN <<>> ELSE [i \in 1..k |-> 0] \o a
BigDrop(a, k) == IF Len(a) <= k THEN <<>> ELSE SubSeq(a, k + 1, Len(a))
\* a mod Base^k
BigLow(a, k) == BigNorm(SubSeq(a, 1, Min2(k, Len(a))))

\* largest d in lo..hi with d * b <= r   (lo * b <= r is known)
RECURSIVE BigQuotLimb(_, _, _, _)
BigQuotLimb(r, b, lo, hi) ==
    IF lo = hi THEN lo
    ELSE IF BigCmp(BigMulSmall(b, (lo + hi + 1) \div 2), r) <= 0
         THEN BigQuotLimb(r, b, (lo + hi + 1) \div 2, hi)
         ELSE BigQuotLimb(r, b, lo, (lo + hi + 1) \div 2 - 1)

\* schoolbook long division from the most significant limb down; quot holds
\* the quotient limbs found so far, rem the running remainder (< b), r the
\* remainder with the next limb brought down, d the quotient limb of r
RECURSIVE BigDivFrom(_, _, _, _, _)
\* the limbs of a above the k lowest, as an integer (at most three limbs)
BigTop(a, k) == BigToInt(BigDrop(a, Max2(0, k)))

\* with rt and bt the limbs of r and b above the Len(b) - 2 lowest:
\* rt \div (bt + 1) <= r \div b <= rt \div bt
BigDivLimb(r, b) ==
    IF BigCmp(r, b) < 0 THEN 0
    ELSE BigQuotLimb(r, b,
             Max2(1, BigTop(r, Len(b) - 2) \div (BigTop(b, Len(b) - 2) + 1)),
             Min2(Base - 1, BigTop(r, Len(b) - 2) \div BigTop(b, Len(b) - 2)))

BigDivNext(a, b, i, quot, r, d) ==
    IF d < Base                             \* always: d is a limb
    THEN BigDivFrom(a, b, i - 1, <<d>> \o quot, BigSub(r, BigMulSmall(b, d)))
    ELSE <<>>

BigDivBring(a, b, i, quot, r) ==
    BigDivNext(a, b, i, quot, r, BigDivLimb(r, b))

BigDivFrom(a, b, i, quot, rem) ==
    IF i = 0 THEN quot
    ELSE BigDivBring(a, b, i, quot, BigNorm(<<a[i]>> \o rem))

\* floor(a / b) for b > 0
BigDiv(a, b) == BigNorm(BigDivFrom(a, b, Len(a), <<>>, <<>>))

\* a / Base^k rounded to the nearest integer, ties to even (Python's round)
BigRoundQuot(q, c) ==
    IF c > 0 \/ (c = 0 /\ Limb(q, 1) % 2 = 1) THEN BigAdd(q, <<1>>) ELSE q

BigRoundDrop(a, k) ==
    BigRoundQuot(BigDrop(a, k),
                 BigCmp(BigMulSmall(BigLow(a, k), 2), BigShift(<<1>>, k)))

(***************************************************************************)
(* Decimal floating point: [m |-> mantissa, e |-> exponent] is the number  *)
(* m * 100^e, m a natural of at most Precision limbs (17 to 18 decimal     *)
(* digits, a double carries 15 to 17).  Every operation rounds its exact   *)
(* result to nearest, ties to even, as IEEE arithmetic does.               *)
(***************************************************************************)
Precision == 3 * 3

DfZero == [m |-> <<>>, e |-> 0]
DfOne == [m |-> <<1>>, e |-> 0]
DfIsZero(x) == x.m = <<>>

DfRound1(m, e) ==
    IF Len(m) <= Precision THEN [m |-> m, e |-> e]
    ELSE [m |-> BigRoundDrop(m, Len(m) - Precision), e |-> e + (Len(m) - Precision)]

\* rounding 99..99|5 up gives one limb too many: round once more (exact)
DfRound2(x) == IF x.m = <<>> THEN DfZero ELSE DfRound1(x.m, x.e)

DfNorm(m, e) == DfRound2(DfRound1(BigNorm(m), e))

\* the integer n * 100^e, n >= 0
DfFrom(n, e) == DfNorm(BigFromInt(n), e)

DfMul(x, y) ==
    IF DfIsZero(x) \/ DfIsZero(y) THEN DfZero
    ELSE DfNorm(BigMul(x.m, y.m), x.e + y.e)

\* x / y, y # 0
DfDivShift(x, y) == Precision + 1 + Max2(0, Len(y.m) - Len(x.m))

DfDiv(x, y) ==
    IF DfIsZero(x) THEN DfZero
    ELSE DfNorm(BigDiv(BigShift(x.m, DfDivShift(x, y)), y.m),
                x.e - y.e - DfDivShift(x, y))

\* position of the most significant limb
DfTop(x) == Len(x.m) + x.e

\* -1, 0, 1 as x < y, x = y, x > y
DfCmp(x, y) ==
    IF DfIsZero(x) THEN (IF DfIsZero(y) THEN 0 ELSE -1)
    ELSE IF DfIsZero(y) THEN 1
    ELSE IF DfTop(x) # DfTop(y) THEN (IF DfTop(x) < DfTop(y) THEN -1 ELSE 1)
    ELSE BigCmp(BigShift(x.m, x.e - Min2(x.e, y.e)),
                BigShift(y.m, y.e - Min2(x.e, y.e)))

\* an operand more than Precision + 1 limbs below the other is absorbed
DfAdd(x, y) ==
    IF DfIsZero(x) THEN y
    ELSE IF DfIsZero(y) THEN x
    ELSE IF DfTop(x) - DfTop(y) > Precision + 1 THEN x
    ELSE IF DfTop(y) - DfTop(x) > Precision + 1 THEN y
    ELSE DfNorm(BigAdd(BigShift(x.m, x.e - Min2(x.e, y.e)),
                       BigShift(y.m, y.e - Min2(x.e, y.e))), Min2(x.e, y.e))

\* x - y for x >= y
DfSub(x, y) ==
    IF DfIsZero(y) THEN x
    ELSE IF DfTop(x) - DfTop(y) > Precision + 1 THEN x
    ELSE DfNorm(BigSub(BigShift(x.m, x.e - Min2(x.e, y.e)),
                       BigShift(y.m, y.e - Min2(x.e, y.e))), Min2(x.e, y.e))

\* q ** n, n >= 0, by repeated squaring (q = 0 gives 0 for n > 0):
\* s is the square of h = q ** (n \div 2)
DfPowOdd(q, n, s) == IF DfIsZero(s) \/ n % 2 = 0 THEN s ELSE DfMul(s, q)

DfPowSquare(q, n, h) == IF DfIsZero(h) THEN DfZero ELSE DfPowOdd(q, n, DfMul(h, h))

RECURSIVE DfPow(_, _)
DfPow(q, n) == IF n = 0 THEN DfOne ELSE DfPowSquare(q, n, DfPow(q, n \div 2))

\* A double overflows above 1.797e308 and underflows to 0.0 below 4.9e-324;
\* the model takes 100^154 and 100^(-162).
DfOverflows(x) == (~ DfIsZero(x)) /\ DfTop(x) > 7 * 22
DfFlush(x) == IF DfIsZero(x) \/ DfTop(x) < 0 - 2 * 81 THEN DfZero ELSE x

\* round(x * 100^k) as an integer, ties to even (round(x, 2) for k = 1,
\* round(x, -3) / 1000 for k = -3 with x in thousandths of thousands)
DfRoundInt(x, k) ==
    IF DfIsZero(x) THEN 0
    ELSE IF x.e + k >= 0 THEN BigToInt(BigShift(x.m, x.e + k))
    ELSE BigToInt(BigRoundDrop(x.m, 0 - (x.e + k)))

Abs(n) == IF n < 0 THEN -n ELSE n
Sign(n) == IF n < 0 THEN -1 ELSE IF n > 0 THEN 1 ELSE 0

\* int(n / d): truncation toward zero, d > 0
Trunc(n, d) == Sign(n) * (Abs(n) \div d)

\* round(n / d) to the nearest integer, ties to even, d > 0
RoundDiv(n, d) ==
    Sign(n) * (IF 2 * (Abs(n) % d) > d
                  \/ (2 * (Abs(n) % d) = d /\ (Abs(n) \div d) % 2 = 1)
               THEN Abs(n) \div d + 1 ELSE Abs(n) \div d)

(***************************************************************************)
(* Configuration and constants (src/open1.py:7-21)                         *)
(***************************************************************************)
CIVIL_SCORE_MIN == 300
CIVIL_SCORE_MAX == 900
ANNUAL_INTEREST_RATE_DEFAULT == 90000   \* 0.09, in millionths
MAX_EMI_TO_INCOME_RATIO == 45           \* 0.45, in hundredths

JOB_TYPES == { "Gig Worker (e.g., Delivery, Driver)",
               "Farmer / Agricultural Worker",
               "Small Shop Owner / Local Business",
               "Salaried (Formal Employment)",
               "Freelancer / Consultant (Irregular Income)",
               "Other" }

LOAN_TENURES_YEARS == {5, 10, 15, 20, 25, 30}

(***************************************************************************)
(* simulate_alt_data_features                                              *)
(***************************************************************************)
FeatureKeys == { "income_stability_proxy", "digital_transaction_volume",
                 "social_reputation_proxy", "asset_ownership_proxy",
                 "skill_versatility_proxy" }

\* the overrides returned in place of the updated baseline (not the program's)
Update_Replace(f, upd) == upd

\* dict.update
Update(f, upd) ==
    [k \in DOMAIN f \cup DOMAIN upd |-> IF k \in DOMAIN upd THEN upd[k] ELSE f[k]]

BaselineFeatures == [k \in FeatureKeys |-> 50]

JobOverrides(job_type) ==
    IF job_type = "Gig Worker (e.g., Delivery, Driver)" THEN
        [income_stability_proxy |-> 60, digital_transaction_volume |-> 70,
         social_reputation_proxy |-> 65, skill_versatility_proxy |-> 70]
    ELSE IF job_type = "Farmer / Agricultural Worker" THEN
        [income_stability_proxy |-> 40, asset_ownership_proxy |-> 70,
         social_reputation_proxy |-> 60, digital_transaction_volume |-> 30]
    ELSE IF job_type = "Small Shop Owner / Local Business" THEN
        [income_stability_proxy |-> 65, digital_transaction_volume |-> 75,
         social_reputation_proxy |-> 70, asset_ownership_proxy |-> 60]
    ELSE IF job_type = "Salaried (Formal Employment)" THEN
        [income_stability_proxy |-> 90, digital_transaction_volume |-> 80,
         asset_ownership_proxy |-> 60, skill_versatility_proxy |-> 70]
    ELSE IF job_type = "Freelancer / Consultant (Irregular Income)" THEN
        [income_stability_proxy |-> 55, digital_transaction_volume |-> 85,
         social_reputation_proxy |-> 75, skill_versatility_proxy |-> 80]
    ELSE <<>>

simulate_alt_data_features(job_type) ==
    Update(BaselineFeatures, JobOverrides(job_type))

(***************************************************************************)
(* generate_civil_score                                                    *)
(***************************************************************************)
RECURSIVE SumValues(_, _)
SumValues(f, keys) ==
    IF keys = {} THEN 0
    ELSE LET k == CHOOSE x \in keys : TRUE
         IN  f[k] + SumValues(f, keys \ {k})

\* an average of 0 for the empty mapping (not the program's)
AvgFeatureScore_EmptyIsZero(alt_data_features) ==
    IF DOMAIN alt_data_features = {} THEN <<0, 1>>
    ELSE << SumValues(alt_data_features, DOMAIN alt_data_features),
            100 * Cardinality(DOMAIN alt_data_features) >>

\* the average as <<numerator, denominator>>; 0.5 for the empty mapping
AvgFeatureScore(alt_data_features) ==
    IF DOMAIN alt_data_features = {} THEN <<1, 2>>
    ELSE << SumValues(alt_data_features, DOMAIN alt_data_features),
            100 * Cardinality(DOMAIN alt_data_features) >>

\* the average scaled down from the maximum (not the program's)
ScoreFromAverage_Inverted(avg) ==
    Max2(CIVIL_SCORE_MIN,
         Min2(Trunc(CIVIL_SCORE_MAX * avg[2]
                    - avg[1] * (CIVIL_SCORE_MAX - CIVIL_SCORE_MIN), avg[2]),
              CIVIL_SCORE_MAX))

\* int(CIVIL_SCORE_MIN + avg * (CIVIL_SCORE_MAX - CIVIL_SCORE_MIN)), clamped
ScoreFromAverage(avg) ==
    Max2(CIVIL_SCORE_MIN,
         Min2(Trunc(CIVIL_SCORE_MIN * avg[2]
                    + avg[1] * (CIVIL_SCORE_MAX - CIVIL_SCORE_MIN), avg[2]),
              CIVIL_SCORE_MAX))

generate_civil_score(alt_data_features) ==
    ScoreFromAverage(AvgFeatureScore(alt_data_features))

(***************************************************************************)
(* calculate_loan_interest_rate (result in millionths)                     *)
(***************************************************************************)
\* the adjustment the comment on line 101 describes: 0.5% per 100 points
calculate_loan_interest_rate_HalfPercent(civil_score) ==
    LET mid == CIVIL_SCORE_MIN + (CIVIL_SCORE_MAX - CIVIL_SCORE_MIN) \div 2
    IN  Max2(70000, Min2(ANNUAL_INTEREST_RATE_DEFAULT - (civil_score - mid) * 50, 150000))

\* the estimate returned without the bounds of line 110 (not the program's)
calculate_loan_interest_rate_Unclamped(civil_score) ==
    ANNUAL_INTEREST_RATE_DEFAULT - (civil_score - 600) * 25

calculate_loan_interest_rate(civil_score) ==
    LET mid == CIVIL_SCORE_MIN + (CIVIL_SCORE_MAX - CIVIL_SCORE_MIN) \div 2
        \* score_diff_from_mid * 0.0025 = (civil_score - mid) * 0.000025
        rate_adjustment == - ((civil_score - mid) * 25)
        estimated_annual_rate == ANNUAL_INTEREST_RATE_DEFAULT + rate_adjustment
    IN  Max2(70000, Min2(estimated_annual_rate, 150000))

(***************************************************************************)
(* calculate_max_loan_and_emi                                              *)
(*   monthly_income in cents, annual_interest_rate in millionths;          *)
(*   returns <<max loan, EMI>> in cents.  A negative income is carried as  *)
(*   a sign next to the magnitude of the amounts.                          *)
(***************************************************************************)
\* annual_interest_rate / 12
MonthlyRate(annual_interest_rate) ==
    DfDiv(DfFrom(annual_interest_rate, 0 - 3), DfFrom(12, 0))

\* (1 + r) ** n
Growth(rate, n) == DfPow(DfAdd(DfOne, rate), n)

\* the numerator without its factor (1+r)^n (not the program's)
EmiFormula_NoGrowth(principal, rate, growth) ==
    DfDiv(DfMul(principal, rate), DfSub(growth, DfOne))

\* P * r * (1+r)^n / ((1+r)^n - 1), given growth = (1+r)^n (lines 146-151)
EmiFormula(principal, rate, growth) ==
    DfDiv(DfMul(DfMul(principal, rate), growth), DfSub(growth, DfOne))

\* E * (1 - (1+r)^-n) / r (line 130); for r >= 0 the power (1+r)^-n can
\* underflow to 0.0, it cannot overflow
AnnuityPrincipal(installment, rate, growth) ==
    DfDiv(DfMul(installment, DfSub(DfOne, DfFlush(DfDiv(DfOne, growth)))), rate)

\* principal / n, or 0 when there are no payments
FlatEmi(principal, n) ==
    IF n > 0 THEN DfDiv(principal, DfFrom(n, 0)) ELSE DfZero

\* monthly_income * MAX_EMI_TO_INCOME_RATIO (the magnitude)
MaxPermissibleEmi(monthly_income) ==
    DfFrom(Abs(monthly_income) * MAX_EMI_TO_INCOME_RATIO, 0 - 2)

\* lines 126-133
MaxLoanAmount(max_permissible_emi, monthly_interest_rate, number_of_payments, growth) ==
    IF DfIsZero(monthly_interest_rate)
    THEN DfMul(max_permissible_emi, DfFrom(number_of_payments, 0))
    ELSE AnnuityPrincipal(max_permissible_emi, monthly_interest_rate, growth)

\* lines 141-153
ActualEmi(monthly_income, max_loan_amount, monthly_interest_rate, number_of_payments, growth) ==
    IF DfIsZero(monthly_interest_rate) THEN FlatEmi(max_loan_amount, number_of_payments)
    ELSE IF DfOverflows(growth)                     \* except OverflowError
         THEN DfFrom(Abs(monthly_income), 0 - 1)
    ELSE IF DfIsZero(DfSub(growth, DfOne))          \* denominator == 0
         THEN FlatEmi(max_loan_amount, number_of_payments)
    ELSE EmiFormula(max_loan_amount, monthly_interest_rate, growth)

\* the test written as max_loan_amount == 0 (not the program's)
LoanIsNonPositive_ZeroOnly(monthly_income, max_loan_amount) ==
    DfIsZero(max_loan_amount)

\* if max_loan_amount <= 0 (line 138): the amount is negative exactly when
\* the income is
LoanIsNonPositive(monthly_income, max_loan_amount) ==
    monthly_income < 0 \/ DfIsZero(max_loan_amount)

\* lines 138-155
LoanAndEmi(monthly_income, max_loan_amount, monthly_interest_rate, number_of_payments, growth) ==
    IF LoanIsNonPositive(monthly_income, max_loan_amount)
    THEN <<0, 0>>
    ELSE << DfRoundInt(max_loan_amount, 1),
            DfRoundInt(ActualEmi(monthly_income, max_loan_amount, monthly_interest_rate,
                                 number_of_payments, growth), 1) >>

LoanFromGrowth(monthly_income, monthly_interest_rate, number_of_payments, growth) ==
    LoanAndEmi(monthly_income,
               MaxLoanAmount(MaxPermissibleEmi(monthly_income), monthly_interest_rate,
                             number_of_payments, growth),
               monthly_interest_rate, number_of_payments, growth)

LoanFromRate(monthly_income, monthly_interest_rate, number_of_payments) ==
    LoanFromGrowth(monthly_income, monthly_interest_rate, number_of_payments,
                   Growth(monthly_interest_rate, number_of_payments))

calculate_max_loan_and_emi(monthly_income, annual_interest_rate, loan_tenure_years) ==
    LoanFromRate(monthly_income, MonthlyRate(annual_interest_rate), loan_tenure_years * 12)

(***************************************************************************)
(* get_mock_bank_loan_options                                              *)
(*   max_loan_calculated, calculated_emi in cents; rates in millionths;    *)
(*   u1, u2 are the two values np.random.uniform returns, in thousandths.  *)
(*   Line 168 calls calculate_max_loan_and_emi(0, ...) and discards the    *)
(*   result; it has no effect and is left out.                             *)
(***************************************************************************)
\* round(max_loan_calculated * factor, -3), factor = num / den
RoundToThousand(max_loan_calculated, num, den) ==
    Sign(max_loan_calculated)
      * 1000 * DfRoundInt(DfDiv(DfMul(DfFrom(Abs(max_loan_calculated), 0 - 1),
                                      DfDiv(DfFrom(num, 0), DfFrom(den, 0))),
                                DfFrom(1000, 0)), 0)

\* lines 174-179 and 202-207
RecalcFormula(amount, monthly_rate, num_payments, growth) ==
    IF (~ DfIsZero(monthly_rate)) /\ num_payments > 0
    THEN IF DfCmp(growth, DfOne) > 0
         THEN EmiFormula(amount, monthly_rate, growth)
         ELSE FlatEmi(amount, num_payments)
    ELSE FlatEmi(amount, num_payments)

RecalcFromRate(amount, monthly_rate, num_payments) ==
    RecalcFormula(amount, monthly_rate, num_payments, Growth(monthly_rate, num_payments))

\* the EMI recomputed for a lender's amount (lines 171-179 and 199-207),
\* rounded to cents as the offer stores it; loan_amount >= 0
RecalcEmi(loan_amount, interest_rate, loan_tenure_years) ==
    DfRoundInt(RecalcFromRate(DfFrom(loan_amount, 0), MonthlyRate(interest_rate),
                              loan_tenure_years * 12), 1)

\* the rate without its lower bound 0.075 (not the program's)
Bank1Rate_NoFloor(civil_score, base_annual_interest_rate) ==
    Min2(160000, base_annual_interest_rate + 5000 - (civil_score - 600) * 10)

Bank1Rate(civil_score, base_annual_interest_rate) ==
    Min2(160000, Max2(75000, base_annual_interest_rate + 5000
                               - (civil_score - 600) * 10))

Bank2Rate(civil_score, base_annual_interest_rate) ==
    Min2(140000, Max2(70000, base_annual_interest_rate - 2000
                               - (civil_score - 650) * 20))

\* lines 182-191
Bank1Record(bank1_loan_amount, bank1_interest_rate, loan_tenure_years) ==
    IF bank1_loan_amount > 10000
    THEN << [bank_name           |-> "Inclusive Housing Finance Ltd.",
             loan_product_name   |-> "Sahay Home Loan",
             offered_loan_amount |-> bank1_loan_amount,
             interest_rate_pa    |-> RoundDiv(bank1_interest_rate, 100),
             tenure_years        |-> loan_tenure_years,
             estimated_emi       |-> 100 * RecalcEmi(bank1_loan_amount,
                                         bank1_interest_rate, loan_tenure_years)] >>
    ELSE <<>>

Bank1Offer(max_loan_calculated, civil_score, loan_tenure_years, base_annual_interest_rate, u1) ==
    Bank1Record(RoundToThousand(max_loan_calculated, u1, 1000),
                Bank1Rate(civil_score, base_annual_interest_rate), loan_tenure_years)

\* the threshold test written as >= (not the program's)
Bank2Record_AtLeastThreshold(bank2_loan_amount, bank2_interest_rate, loan_tenure_years) ==
    IF bank2_loan_amount >= 10000
    THEN << [bank_name           |-> "Progressive National Bank",
             loan_product_name   |-> "MyFirstHome Loan",
             offered_loan_amount |-> bank2_loan_amount,
             interest_rate_pa    |-> RoundDiv(bank2_interest_rate, 100),
             tenure_years        |-> loan_tenure_years,
             estimated_emi       |-> 100 * RecalcEmi(bank2_loan_amount,
                                         bank2_interest_rate, loan_tenure_years)] >>
    ELSE <<>>

\* lines 209-218
Bank2Record(bank2_loan_amount, bank2_interest_rate, loan_tenure_years) ==
    IF bank2_loan_amount > 10000
    THEN << [bank_name           |-> "Progressive National Bank",
             loan_product_name   |-> "MyFirstHome Loan",
             offered_loan_amount |-> bank2_loan_amount,
             interest_rate_pa    |-> RoundDiv(bank2_interest_rate, 100),
             tenure_years        |-> loan_tenure_years,
             estimated_emi       |-> 100 * RecalcEmi(bank2_loan_amount,
                                         bank2_interest_rate, loan_tenure_years)] >>
    ELSE <<>>

Bank2Offer(max_loan_calculated, civil_score, loan_tenure_years, base_annual_interest_rate, u2) ==
    Bank2Record(RoundToThousand(max_loan_calculated, u2, 1000),
                Bank2Rate(civil_score, base_annual_interest_rate), loan_tenure_years)

\* the installment recomputed by the annuity formula, as the named lenders'
\* is (not the program's)
GenericOffer_Recomputed(max_loan_calculated, calculated_emi, loan_tenure_years, base_annual_interest_rate) ==
    [bank_name           |-> "Generic Lender Co.",
     loan_product_name   |-> "Basic Home Loan",
     offered_loan_amount |-> RoundToThousand(max_loan_calculated, 9, 10),
     interest_rate_pa    |-> RoundDiv(base_annual_interest_rate, 100) + 100,
     tenure_years        |-> loan_tenure_years,
     estimated_emi       |-> 100 * RecalcEmi(Abs(RoundToThousand(max_loan_calculated, 9, 10)),
                                 base_annual_interest_rate + 10000, loan_tenure_years)]

GenericOffer(max_loan_calculated, calculated_emi, loan_tenure_years, base_annual_interest_rate) ==
    [bank_name           |-> "Generic Lender Co.",
     loan_product_name   |-> "Basic Home Loan",
     offered_loan_amount |-> RoundToThousand(max_loan_calculated, 9, 10),
     interest_rate_pa    |-> RoundDiv(base_annual_interest_rate, 100) + 100,
     tenure_years        |-> loan_tenure_years,
     estimated_emi       |-> calculated_emi * 105]

\* lines 221-230: options holds what the two lenders appended
WithFallback(options, max_loan_calculated, calculated_emi, loan_tenure_years, base_annual_interest_rate) ==
    IF options = <<>> /\ max_loan_calculated > 0
    THEN << GenericOffer(max_loan_calculated, calculated_emi, loan_tenure_years,
                         base_annual_interest_rate) >>
    ELSE options

get_mock_bank_loan_options(max_loan_calculated, calculated_emi, civil_score, loan_tenure_years, base_annual_interest_rate, u1, u2) ==
    WithFallback(Bank1Offer(max_loan_calculated, civil_score, loan_tenure_years,
                            base_annual_interest_rate, u1)
                 \o Bank2Offer(max_loan_calculated, civil_score, loan_tenure_years,
                               base_annual_interest_rate, u2),
                 max_loan_calculated, calculated_emi, loan_tenure_years,
                 base_annual_interest_rate)

(***************************************************************************)
(* generate_ai_explanation: the score band and which third section the     *)
(* text carries; the rest of the text repeats its arguments.               *)
(***************************************************************************)
ScoreRating(civil_score) ==
    IF civil_score >= 800 THEN "excellent"
    ELSE IF civil_score >= 740 THEN "very good"
    ELSE IF civil_score >= 670 THEN "good"
    ELSE IF civil_score < 580 THEN "poor, requiring improvement"
    ELSE "fair"

generate_ai_explanation(civil_score, bank_options) ==
    [score_rating   |-> ScoreRating(civil_score),
     options_listed |-> Len(bank_options)]

(***************************************************************************)
(* Bounds of the model                                                     *)
(***************************************************************************)
\* sidebar incomes 5000, 25000, ... (the widget allows 5000..500000)
MaxIncomeStep == 1
\* points per draw range of np.random.uniform
DrawSteps == 2
\* feature values 0, 1/FeatSteps, ..., 1 (in hundredths, truncated)
FeatSteps == 2
\* scores 600 - ScoreSpan .. 600 + ScoreSpan given to the rate estimator
ScoreSpan == 2500

SidebarIncomes == { 5000 + 20000 * k : k \in 0..MaxIncomeStep }

\* np.random.uniform(lo, hi): half-open, in thousandths; DrawSteps points from
\* lo to the last thousandth below hi
Uniform(lo, hi) ==
    { lo + ((hi - 1 - lo) * k) \div (DrawSteps - 1) : k \in 0..(DrawSteps - 1) }

FeatureGrid == { (100 * k) \div FeatSteps : k \in 0..FeatSteps }
FeatureSets == UNION { [K -> FeatureGrid] : K \in SUBSET FeatureKeys }
Scores == (600 - ScoreSpan)..(600 + ScoreSpan)
\* every 50th score, to compare a score with
ScoreGrid == { 600 + 50 * k : k \in (0 - ScoreSpan \div 50)..(ScoreSpan \div 50) }

\* occupations given to the feature simulator, two of them unrecognized
CallJobTypes == JOB_TYPES \cup { "Student", "" }
\* incomes (cents) and annual rates (millionths) given to the amortization
CallIncomes == { 0 - 2500000, 0 - 1, 0, 1, 10001, 123450, 2500000 }
CallRates == { 0, 1, 30000, 70000, 87000, 150000, 100000000 }
\* arguments given to the offer generator
CallMaxLoans == { 0, 500000, 1050000, 1090000, 1200000, 110917585 }
CallEmis == { 1125000 }
CallScores == { 300, 900 }
CallBaseRates == { 50000, 88050, 150000, 200000 }
CallTenures == { 5, 30 }

(***************************************************************************)
(* State: the sidebar inputs, the values the script computes on a run      *)
(* (lines 319-384), and, for the functions called on their own, the last   *)
(* call with its arguments and result.                                     *)
(***************************************************************************)
VARIABLES pc, monthly_income, job_type, loan_tenure_years,
          alt_data, civil_score, annual_interest_rate, max_loan, emi,
          bank_options, explanation_text, call

inputs  == <<monthly_income, job_type, loan_tenure_years>>
results == <<alt_data, civil_score, annual_interest_rate, max_loan, emi,
             bank_options, explanation_text>>
vars    == <<pc, inputs, results, call>>

NoExplanation == [score_rating |-> "", options_listed |-> 0]
NoCall == [fn |-> "none", args |-> <<>>, ret |-> <<>>]

Blank ==
    /\ alt_data = <<>>
    /\ civil_score = 0
    /\ annual_interest_rate = 0
    /\ max_loan = 0
    /\ emi = 0
    /\ bank_options = <<>>
    /\ explanation_text = NoExplanation

\* the page as first rendered: widget defaults, nothing computed
Init ==
    /\ pc = "idle"
    /\ monthly_income = 25000
    /\ job_type = "Gig Worker (e.g., Delivery, Driver)"
    /\ loan_tenure_years = 15
    /\ Blank
    /\ call = NoCall

\* the user edits the sidebar: the script reruns without the button and
\* shows no results
SetInputs ==
    /\ pc \in {"idle", "error", "done"}
    /\ monthly_income' \in SidebarIncomes
    /\ job_type' \in JOB_TYPES
    /\ loan_tenure_years' \in LOAN_TENURES_YEARS
    /\ pc' = "idle"
    /\ alt_data' = <<>>
    /\ civil_score' = 0
    /\ annual_interest_rate' = 0
    /\ max_loan' = 0
    /\ emi' = 0
    /\ bank_options' = <<>>
    /\ explanation_text' = NoExplanation
    /\ UNCHANGED call

\* run_button: 1. simulate alt data (lines 319-327)
Simulate ==
    /\ pc = "idle"
    /\ IF monthly_income <= 0
       THEN pc' = "error" /\ UNCHANGED alt_data
       ELSE pc' = "features" /\ alt_data' = simulate_alt_data_features(job_type)
    /\ UNCHANGED <<inputs, civil_score, annual_interest_rate, max_loan, emi,
                   bank_options, explanation_text, call>>

\* 2. generate civil score (line 330)
Score ==
    /\ pc = "features"
    /\ civil_score' = generate_civil_score(alt_data)
    /\ pc' = "scored"
    /\ UNCHANGED <<inputs, alt_data, annual_interest_rate, max_loan, emi,
                   bank_options, explanation_text, call>>

\* 3. determine interest rate (line 333)
Rate ==
    /\ pc = "scored"
    /\ annual_interest_rate' = calculate_loan_interest_rate(civil_score)
    /\ pc' = "rated"
    /\ UNCHANGED <<inputs, alt_data, civil_score, max_loan, emi,
                   bank_options, explanation_text, call>>

\* 4. estimate max loan and EMI (line 336)
Quote ==
    /\ pc = "rated"
    /\ \E quote \in { calculate_max_loan_and_emi(100 * monthly_income,
                           annual_interest_rate, loan_tenure_years) } :
           max_loan' = quote[1] /\ emi' = quote[2]
    /\ pc' = "quoted"
    /\ UNCHANGED <<inputs, alt_data, civil_score, annual_interest_rate,
                   bank_options, explanation_text, call>>

\* 5. get mock bank options, only if eligible for some loan (lines 339-341)
Offers ==
    /\ pc = "quoted"
    /\ IF max_loan > 0
       THEN \E u1 \in Uniform(900, 980), u2 \in Uniform(950, 1000) :
               bank_options' = get_mock_bank_loan_options(max_loan, emi, civil_score,
                                   loan_tenure_years, annual_interest_rate, u1, u2)
       ELSE bank_options' = <<>>
    /\ pc' = "offered"
    /\ UNCHANGED <<inputs, alt_data, civil_score, annual_interest_rate, max_loan, emi,
                   explanation_text, call>>

\* the explanation (line 384)
Explain ==
    /\ pc = "offered"
    /\ explanation_text' = generate_ai_explanation(civil_score, bank_options)
    /\ pc' = "done"
    /\ UNCHANGED <<inputs, alt_data, civil_score, annual_interest_rate, max_loan, emi,
                   bank_options, call>>

Next == SetInputs \/ Simulate \/ Score \/ Rate \/ Quote \/ Offers \/ Explain

Spec == Init /\ [][Next]_vars

(***************************************************************************)
(* The functions called on their own, with arguments from bounded sets.    *)
(***************************************************************************)
\* One call at a time: a call is made when none is outstanding, and its
\* result is dropped before the next one.
CallSimulate ==
    /\ call = NoCall
    /\ \E j \in CallJobTypes :
        call' = [fn |-> "simulate_alt_data_features", args |-> <<j>>,
                 ret |-> simulate_alt_data_features(j)]
    /\ UNCHANGED <<pc, inputs, results>>

CallScore ==
    /\ call = NoCall
    /\ \E f \in FeatureSets :
        call' = [fn |-> "generate_civil_score", args |-> <<f>>,
                 ret |-> generate_civil_score(f)]
    /\ UNCHANGED <<pc, inputs, results>>

CallRate ==
    /\ call = NoCall
    /\ \E sc \in Scores :
        call' = [fn |-> "calculate_loan_interest_rate", args |-> <<sc>>,
                 ret |-> calculate_loan_interest_rate(sc)]
    /\ UNCHANGED <<pc, inputs, results>>

CallLoan ==
    /\ call = NoCall
    /\ \E inc \in CallIncomes, r \in CallRates, t \in LOAN_TENURES_YEARS :
        call' = [fn |-> "calculate_max_loan_and_emi", args |-> <<inc, r, t>>,
                 ret |-> calculate_max_loan_and_emi(inc, r, t)]
    /\ UNCHANGED <<pc, inputs, results>>

CallOffers ==
    /\ call = NoCall
    /\ \E m \in CallMaxLoans, e \in CallEmis, sc \in CallScores, t \in CallTenures,
          b \in CallBaseRates, u1 \in Uniform(900, 980), u2 \in Uniform(950, 1000) :
        call' = [fn |-> "get_mock_bank_loan_options", args |-> <<m, e, sc, t, b, u1, u2>>,
                 ret |-> get_mock_bank_loan_options(m, e, sc, t, b, u1, u2)]
    /\ UNCHANGED <<pc, inputs, results>>

CallExplain ==
    /\ call = NoCall
    /\ \E sc \in CIVIL_SCORE_MIN..CIVIL_SCORE_MAX, n \in 0..2 :
        call' = [fn |-> "generate_ai_explanation", args |-> <<sc, n>>,
                 ret |-> generate_ai_explanation(sc, [i \in 1..n |-> <<>>])]
    /\ UNCHANGED <<pc, inputs, results>>

Discard ==
    /\ call # NoCall
    /\ call' = NoCall
    /\ UNCHANGED <<pc, inputs, results>>

CallNext ==
    CallSimulate \/ CallScore \/ CallRate \/ CallLoan \/ CallOffers
        \/ CallExplain \/ Discard

CallSpec == Init /\ [][CallNext]_vars

(***************************************************************************)
(* Properties                                                              *)
(***************************************************************************)
Called(fn) == call.fn = fn
Salaried == "Salaried (Formal Employment)"
ScenarioRun ==
    /\ pc = "done"
    /\ job_type = Salaried
    /\ monthly_income = 25000
    /\ loan_tenure_years = 15

OffersCalled == Called("get_mock_bank_loan_options")
Generic == "Generic Lender Co."
Inclusive == "Inclusive Housing Finance Ltd."
Progressive == "Progressive National Bank"

\* C2 as stated: every offer of the returned list has an offered amount
\* strictly greater than 10,000.
C2_EveryOfferAboveThreshold ==
    OffersCalled =>
        \A i \in 1..Len(call.ret) : call.ret[i].offered_loan_amount > 10000

\* C2 (amended): every named-lender offer of the returned list has an offered
\* amount strictly greater than 10,000; the generic fallback offer is not
\* subject to the threshold, its amount is at most 10,000.
C2_NamedOffersAboveThreshold ==
    OffersCalled =>
        \A i \in 1..Len(call.ret) :
            IF call.ret[i].bank_name = Generic
            THEN call.ret[i].offered_loan_amount <= 10000
            ELSE call.ret[i].offered_loan_amount > 10000

\* one lender's amount rounds to 10,000 and is left out, the other's is listed
C2_Witness ==
    /\ OffersCalled
    /\ Len(call.ret) = 1
    /\ call.ret[1].bank_name = Progressive
    /\ RoundToThousand(call.args[1], call.args[6], 1000) = 10000

\* neither named lender's rounded amount exceeds 10,000
NeitherQualifies ==
    /\ RoundToThousand(call.args[1], call.args[6], 1000) <= 10000
    /\ RoundToThousand(call.args[1], call.args[7], 1000) <= 10000

\* the list is empty for maxLoanAmount 0, non-empty exactly when it is
\* positive, and the generic offer is never listed with another offer
FallbackShape ==
    /\ call.args[1] = 0 => call.ret = <<>>
    /\ Len(call.ret) > 0 <=> call.args[1] > 0
    /\ \A i \in 1..Len(call.ret) : call.ret[i].bank_name = Generic => Len(call.ret) = 1
    /\ (call.args[1] > 0 /\ NeitherQualifies) =>
           Len(call.ret) = 1 /\ call.ret[1].bank_name = Generic

\* the generic offer's amount is 0.9 x maxLoanAmount to the nearest thousand
\* and its installment the caller's installment x 1.05
FallbackAmountAndEmi ==
    \A i \in 1..Len(call.ret) : call.ret[i].bank_name = Generic =>
        /\ call.ret[i].offered_loan_amount % 1000 = 0
        /\ Abs(1000 * call.ret[i].offered_loan_amount - 9 * call.args[1]) <= 500000
        /\ call.ret[i].estimated_emi = call.args[2] * 105

\* C3 as stated: empty for maxLoanAmount 0; for maxLoanAmount > 0 with no
\* qualifying named lender exactly one offer, the generic one, with amount
\* 0.9 x maxLoanAmount to the nearest thousand, rate percent equal to the base
\* rate percent + 1.0 and installment the caller's x 1.05; non-empty iff
\* maxLoanAmount > 0; the generic offer never with a named one.
C3_FallbackAsStated ==
    OffersCalled =>
        /\ FallbackShape
        /\ FallbackAmountAndEmi
        /\ \A i \in 1..Len(call.ret) : call.ret[i].bank_name = Generic =>
               100 * call.ret[i].interest_rate_pa = call.args[5] + 10000

\* C3 (amended): as stated, except that the generic offer's rate percent is
\* the base rate percent rounded to two decimals, + 1.0.
C3_Fallback ==
    OffersCalled =>
        /\ FallbackShape
        /\ FallbackAmountAndEmi
        /\ \A i \in 1..Len(call.ret) : call.ret[i].bank_name = Generic =>
               Abs(100 * (call.ret[i].interest_rate_pa - 100) - call.args[5]) <= 50

\* the fallback is returned for a base rate with more than two decimals
C3_Witness ==
    /\ OffersCalled
    /\ call.args[1] > 0
    /\ call.args[5] % 100 # 0
    /\ Len(call.ret) = 1
    /\ call.ret[1].bank_name = Generic

(***************************************************************************)
(* calculate_max_loan_and_emi called on its own                            *)
(***************************************************************************)
LoanCalled == Called("calculate_max_loan_and_emi")

\* C4: for every monthly income <= 0, every annual rate >= 0 and every tenure
\* of LOAN_TENURES_YEARS the function returns exactly (0, 0), so both returned
\* values are >= 0.
C4_NonPositiveIncome ==
    (LoanCalled /\ call.args[1] <= 0 /\ call.args[2] >= 0
                /\ call.args[3] \in LOAN_TENURES_YEARS) =>
        /\ call.ret = <<0, 0>>
        /\ call.ret[1] >= 0
        /\ call.ret[2] >= 0

\* a negative income at rate 0, where the amount is income * 0.45 * n < 0
C4_Witness ==
    /\ LoanCalled
    /\ call.args[1] < 0
    /\ call.args[2] = 0
    /\ call.ret = <<0, 0>>

\* the returned installment is monthly income x 0.45 to the cent
CapHolds ==
    Abs(100 * call.ret[2] - MAX_EMI_TO_INCOME_RATIO * call.args[1]) <= 50

\* the present value of the returned installment over the tenure at the rate
RebuiltPrincipal ==
    DfRoundInt(AnnuityPrincipal(DfFrom(call.ret[2], 0 - 1), MonthlyRate(call.args[2]),
                                Growth(MonthlyRate(call.args[2]), 12 * call.args[3])), 1)

\* it reproduces the returned maximum loan within 1 currency unit
RebuildHolds == Abs(RebuiltPrincipal - call.ret[1]) <= 100

\* C5 as stated: for every monthly income > 0, annual rate > 0 and tenure of
\* LOAN_TENURES_YEARS the installment is income x 0.45 within rounding and the
\* present value of the installment is the maximum loan within 1 unit.
C5_CapAndRebuildAsStated ==
    (LoanCalled /\ call.args[1] > 0 /\ call.args[2] > 0) =>
        CapHolds /\ RebuildHolds

\* C5 (amended): the same for every annual rate from 0.07 to 0.15, the range
\* of calculate_loan_interest_rate.
C5_CapAndRebuild ==
    (LoanCalled /\ call.args[1] > 0 /\ call.args[2] \in 70000..150000) =>
        CapHolds /\ RebuildHolds

\* an income with cents over 30 years, where the cap is rounded
C5_Witness ==
    /\ LoanCalled
    /\ call.args[1] > 0
    /\ (MAX_EMI_TO_INCOME_RATIO * call.args[1]) % 100 # 0
    /\ call.args[2] = 70000
    /\ call.args[3] = 30
    /\ call.ret[1] > 100 * call.ret[2]

(***************************************************************************)
(* generate_civil_score called on its own                                  *)
(***************************************************************************)
ScoreCalled == Called("generate_civil_score")

\* C6: for every feature set with values in [0, 1], the empty one included,
\* the score is an integer in [300, 900], the average is a quotient by a
\* non-zero count, and the score of the empty set is 600.
C6_ScoreRange ==
    ScoreCalled =>
        /\ call.ret \in CIVIL_SCORE_MIN..CIVIL_SCORE_MAX
        /\ AvgFeatureScore(call.args[1])[2] # 0
        /\ DOMAIN call.args[1] = {} => call.ret = 600

C6_Witness ==
    /\ ScoreCalled
    /\ DOMAIN call.args[1] = {}
    /\ call.ret = 600

\* C9: for feature sets A and B over the same keys, every value of B at most
\* the value of A, score(B) <= score(A).
C9_ScoreMonotonic ==
    ScoreCalled =>
        \A B \in [DOMAIN call.args[1] -> FeatureGrid] :
            (\A k \in DOMAIN B : B[k] <= call.args[1][k]) =>
                generate_civil_score(B) <= call.ret

\* a set over all five keys that scores more than the all-zero set
C9_Witness ==
    /\ ScoreCalled
    /\ DOMAIN call.args[1] = FeatureKeys
    /\ \E k \in FeatureKeys : call.args[1][k] < 100
    /\ generate_civil_score([k \in FeatureKeys |-> 0]) < call.ret

(***************************************************************************)
(* calculate_loan_interest_rate called on its own                          *)
(***************************************************************************)
RateCalled == Called("calculate_loan_interest_rate")

C8_LenderRates ==
    OffersCalled =>
        /\ \A i \in 1..Len(call.ret) : call.ret[i].bank_name = Inclusive =>
              /\ call.ret[i].interest_rate_pa \in 750..1600
              /\ call.ret[i].interest_rate_pa =
                    RoundDiv(Max2(75000, Min2(160000,
                        call.args[5] + 5000 - 10 * (call.args[3] - 600))), 100)
        /\ \A i \in 1..Len(call.ret) : call.ret[i].bank_name = Progressive =>
              /\ call.ret[i].interest_rate_pa \in 700..1400
              /\ call.ret[i].interest_rate_pa =
                    RoundDiv(Max2(70000, Min2(140000,
                        call.args[5] - 2000 - 20 * (call.args[3] - 650))), 100)
        /\ \A i, j \in 1..Len(call.ret) :
              (call.ret[i].bank_name = Inclusive /\ call.ret[j].bank_name = Progressive)
                  => i < j

\* both lenders listed, the first at its lower bound
C8_Witness ==
    /\ OffersCalled
    /\ Len(call.ret) = 2
    /\ call.ret[1].bank_name = Inclusive
    /\ call.ret[1].interest_rate_pa = 750
    /\ call.args[5] + 5000 - 10 * (call.args[3] - 600) < 75000

(***************************************************************************)
(* simulate_alt_data_features called on its own                            *)
(***************************************************************************)
SimulateCalled == Called("simulate_alt_data_features")

\* C10: for every category of JOB_TYPES and every unrecognized category the
\* mapping has exactly the five keys, every value in [0.0, 1.0], and for
\* "Other" and unrecognized categories every value is 0.5.
C10_FeatureSimulator ==
    SimulateCalled =>
        /\ DOMAIN call.ret = FeatureKeys
        /\ Cardinality(DOMAIN call.ret) = 5
        /\ \A k \in DOMAIN call.ret : call.ret[k] \in 0..100
        /\ (call.args[1] = "Other" \/ call.args[1] \notin JOB_TYPES) =>
               \A k \in FeatureKeys : call.ret[k] = 50

\* an unrecognized category
C10_Witness ==
    /\ SimulateCalled
    /\ call.args[1] \notin JOB_TYPES
    /\ call.ret = BaselineFeatures

(***************************************************************************)
(* get_mock_bank_loan_options: offered amounts against maxLoanAmount       *)
(***************************************************************************)
\* C11: for every maxLoanAmount > 0 and every draw within the lenders'
\* ranges, no offer of the returned list, named or generic, has an offered
\* amount greater than maxLoanAmount (offered amounts are in currency units,
\* maxLoanAmount in cents).  The code rounds to the NEAREST thousand (lines
\* 167, 196, 225), which rounds up as well as down: 10,900.00 x 0.979 =
\* 10,671.10 is offered as 11,000.
C11_NoOfferAboveMaxLoan ==
    (OffersCalled /\ call.args[1] > 0) =>
        \A i \in 1..Len(call.ret) :
            100 * call.ret[i].offered_loan_amount <= call.args[1]
====
